---- MODULE Spec2Model ----
(***************************************************************************)
(* Model of the catalog application: the records of catalog/models.py      *)
(* (Author, Book, BookInstance, the auth User they reference), the store   *)
(* rules their field declarations state (unique, RESTRICT, SET_NULL,       *)
(* choices/blank/default), BookInstance.is_overdue, the renewal form       *)
(* RenewBookModelForm, and the two loan listings of catalog/views.py.      *)
(*                                                                         *)
(* Dates are day ordinals (date.toordinal()): comparison and the addition  *)
(* of a timedelta are then integer comparison and addition.  A nullable    *)
(* field holds None (the empty tuple) or Some(x) (a one-element tuple).    *)
(***************************************************************************)
EXTENDS Integers, Sequences, FiniteSets, TLC

VARIABLES today, nulls_first, authors, users, books, instances, renewed_at, response

vars == <<today, nulls_first, authors, users, books, instances, renewed_at, response>>

store == <<authors, users, books, instances>>

(* ---------------------------------------------------------------- bounds *)
MaxAuthors == 2
MaxUsers == 2
MaxBooks == 2
MaxInstances == 1
MaxIsbn == 2
MaxCopies == 2
MaxStoreDate == 1
MaxLoans == 2
MaxLoanDate == 2
MaxToday == 30
RenewSlack == 1
MaxRenewDay == 1

(* ------------------------------------------------------- nullable fields *)
None == <<>>
Some(x) == <<x>>
Val(f) == f[1]

\* Python truth value of a nullable date: None is false, every date is true.
Truthy(f) == f # None

(* ------------------------------------------------------------ the schema *)
\* BookInstance.LOAN_STATUS: the stored keys of the four choices.
LOAN_STATUS == {"m", "o", "a", "r"}

\* default='m'
status_default == "m"

\* blank=True on a CharField: the empty string passes validation.
status_blank == TRUE

\* A validation that lets every value through.
status_valid_any(v) == TRUE

\* Field validation of status: a non-empty value must be one of the choices,
\* an empty one must be allowed by blank.
status_valid(v) == IF v = "" THEN status_blank ELSE v \in LOAN_STATUS

\* datetime.timedelta(weeks=w), in days.
timedelta_weeks(w) == w * 7

\* The renewal window of clean_due_back: timedelta(weeks=4).
RenewalWeeks == 4

(* --------------------------------------------------------------- helpers *)
SetMax(S) == CHOOSE m \in S : \A x \in S : x <= m

\* The primary key an auto-increment column gives the next row.
NextId(ids) == IF ids = {} THEN 1 ELSE SetMax(ids) + 1

Anonymous == 0

Idle == [op |-> "none"]

\* A reference a form accepts: absent, or the key of an existing row.
RefOk(ref, ids) == IF ref = None THEN TRUE ELSE Val(ref) \in ids

(* ---------------------------------------------------------------- Init   *)
\* The store as the first migration leaves it: no rows, no request made.
EmptyStore ==
    /\ today = 0
    /\ authors = {}
    /\ users = <<>>
    /\ books = <<>>
    /\ instances = <<>>
    /\ renewed_at = <<>>
    /\ response = Idle

\* ORDER BY due_back ASC puts NULL first on SQLite (the backend a project
\* starts with) and MySQL, last on PostgreSQL and Oracle.
Init == nulls_first = TRUE /\ EmptyStore

\* The listings are checked under either placement of NULL, with two user
\* accounts on file: user 1 holds can_mark_returned, user 2 does not.
InitLoans ==
    /\ nulls_first \in BOOLEAN
    /\ today = 0
    /\ authors = {}
    /\ users = <<[can_mark_returned |-> TRUE], [can_mark_returned |-> FALSE]>>
    /\ books = <<>>
    /\ instances = <<>>
    /\ renewed_at = <<>>
    /\ response = Idle

(* ------------------------------------------------------- Author and User *)
CreateAuthor ==
    /\ NextId(authors) <= MaxAuthors
    /\ authors' = authors \cup {NextId(authors)}
    /\ response' = [op |-> "create_author", outcome |-> "ok"]
    /\ UNCHANGED <<today, nulls_first, users, books, instances, renewed_at>>

\* A SET_NULL that clears the author of every book.
AuthorSetNull_all(bs, a) == [b \in DOMAIN bs |-> [bs[b] EXCEPT !.author = None]]

\* Book.author is on_delete=SET_NULL: the referencing books lose the reference.
AuthorSetNull(bs, a) ==
    [b \in DOMAIN bs |->
        IF bs[b].author = Some(a) THEN [bs[b] EXCEPT !.author = None] ELSE bs[b]]

DeleteAuthor(a) ==
    /\ a \in authors
    /\ authors' = authors \ {a}
    /\ books' = AuthorSetNull(books, a)
    /\ response' = [op |-> "delete_author", id |-> a, outcome |-> "ok"]
    /\ UNCHANGED <<today, nulls_first, users, instances, renewed_at>>

CreateUser(perm) ==
    /\ NextId(DOMAIN users) <= MaxUsers
    /\ users' = [u \in DOMAIN users \cup {NextId(DOMAIN users)} |->
                    IF u \in DOMAIN users THEN users[u]
                    ELSE [can_mark_returned |-> perm]]
    /\ response' = [op |-> "create_user", outcome |-> "ok"]
    /\ UNCHANGED <<today, nulls_first, authors, books, instances, renewed_at>>

\* BookInstance.borrower is on_delete=SET_NULL.
BorrowerSetNull(is, u) ==
    [i \in DOMAIN is |->
        IF is[i].borrower = Some(u) THEN [is[i] EXCEPT !.borrower = None] ELSE is[i]]

DeleteUser(u) ==
    /\ u \in DOMAIN users
    /\ users' = [v \in DOMAIN users \ {u} |-> users[v]]
    /\ instances' = BorrowerSetNull(instances, u)
    /\ response' = [op |-> "delete_user", id |-> u, outcome |-> "ok"]
    /\ UNCHANGED <<today, nulls_first, authors, books, renewed_at>>

(* ------------------------------------------------------------------ Book *)
\* A column without the unique constraint.
isbn_unique_off(bs, self, isbn) == TRUE

\* unique=True on Book.isbn: no other row holds the value.
isbn_unique(bs, self, isbn) == \A b \in DOMAIN bs \ {self} : bs[b].isbn # isbn

CreateBook(isbn, author) ==
    /\ NextId(DOMAIN books) <= MaxBooks
    /\ RefOk(author, authors)
    /\ IF isbn_unique(books, 0, isbn)
       THEN /\ books' = [b \in DOMAIN books \cup {NextId(DOMAIN books)} |->
                            IF b \in DOMAIN books THEN books[b]
                            ELSE [isbn |-> isbn, author |-> author]]
            /\ response' = [op |-> "create_book", outcome |-> "ok"]
       ELSE /\ books' = books
            /\ response' = [op |-> "create_book", outcome |-> "IntegrityError"]
    /\ UNCHANGED <<today, nulls_first, authors, users, instances, renewed_at>>

UpdateBook(b, isbn, author) ==
    /\ b \in DOMAIN books
    /\ RefOk(author, authors)
    /\ IF isbn_unique(books, b, isbn)
       THEN /\ books' = [books EXCEPT ![b] = [isbn |-> isbn, author |-> author]]
            /\ response' = [op |-> "update_book", outcome |-> "ok"]
       ELSE /\ books' = books
            /\ response' = [op |-> "update_book", outcome |-> "IntegrityError"]
    /\ UNCHANGED <<today, nulls_first, authors, users, instances, renewed_at>>

\* A foreign key that protects nothing.
book_restricted_never(is, b) == FALSE

\* BookInstance.book is on_delete=RESTRICT: a referenced book is protected.
book_restricted(is, b) == \E i \in DOMAIN is : is[i].book = Some(b)

DeleteBook(b) ==
    /\ b \in DOMAIN books
    /\ IF book_restricted(instances, b)
       THEN /\ books' = books
            /\ response' = [op |-> "delete_book", id |-> b, outcome |-> "RestrictedError"]
       ELSE /\ books' = [c \in DOMAIN books \ {b} |-> books[c]]
            /\ response' = [op |-> "delete_book", id |-> b, outcome |-> "ok"]
    /\ UNCHANGED <<today, nulls_first, authors, users, instances, renewed_at>>

(* ---------------------------------------------------------- BookInstance *)
\* The value the status column gets: the field default when none is given.
status_or_default(given) == IF given = None THEN status_default ELSE Val(given)

\* id is a uuid4: any identifier not in use.
CreateInstance(id, book, due, status, borrower) ==
    /\ id \notin DOMAIN instances
    /\ RefOk(book, DOMAIN books)
    /\ RefOk(borrower, DOMAIN users)
    /\ IF status_valid(status_or_default(status))
       THEN /\ instances' = [i \in DOMAIN instances \cup {id} |->
                                IF i # id THEN instances[i]
                                ELSE [book |-> book, due_back |-> due,
                                      status |-> status_or_default(status),
                                      borrower |-> borrower]]
            /\ renewed_at' = [i \in DOMAIN instances \cup {id} |->
                                IF i # id THEN renewed_at[i] ELSE None]
            /\ response' = [op |-> "create_instance", id |-> id,
                            status_given |-> (status # None), outcome |-> "ok"]
       ELSE /\ UNCHANGED <<instances, renewed_at>>
            /\ response' = [op |-> "create_instance", id |-> id,
                            status_given |-> (status # None),
                            outcome |-> "ValidationError"]
    /\ UNCHANGED <<today, nulls_first, authors, users, books>>

\* An administrative edit of a copy: every editable field is written.
UpdateInstance(id, book, due, status, borrower) ==
    /\ id \in DOMAIN instances
    /\ RefOk(book, DOMAIN books)
    /\ RefOk(borrower, DOMAIN users)
    /\ IF status_valid(status)
       THEN /\ instances' = [instances EXCEPT ![id] =
                                [book |-> book, due_back |-> due,
                                 status |-> status, borrower |-> borrower]]
            /\ renewed_at' = [renewed_at EXCEPT ![id] = None]
            /\ response' = [op |-> "update_instance", id |-> id, outcome |-> "ok"]
       ELSE /\ UNCHANGED <<instances, renewed_at>>
            /\ response' = [op |-> "update_instance", id |-> id,
                            outcome |-> "ValidationError"]
    /\ UNCHANGED <<today, nulls_first, authors, users, books>>

DeleteInstance(id) ==
    /\ id \in DOMAIN instances
    /\ instances' = [i \in DOMAIN instances \ {id} |-> instances[i]]
    /\ renewed_at' = [i \in DOMAIN instances \ {id} |-> renewed_at[i]]
    /\ response' = [op |-> "delete_instance", id |-> id, outcome |-> "ok"]
    /\ UNCHANGED <<today, nulls_first, authors, users, books>>

(* -------------------------------------------------- the store, as a whole *)
Opt(S) == {None} \cup {Some(x) : x \in S}

\* What an administrator may type into the status field: the four choices,
\* nothing, or something else.
StatusTyped == LOAN_STATUS \cup {"", "x"}

StoreDates == Opt(1 .. MaxStoreDate)

AdminAuthor ==
    \/ CreateAuthor
    \/ \E a \in authors : DeleteAuthor(a)

\* Permissions play no part in the store's rules: accounts are made without.
AdminUser ==
    \/ CreateUser(FALSE)
    \/ \E u \in DOMAIN users : DeleteUser(u)

AdminBook ==
    \/ \E isbn \in 1 .. MaxIsbn, author \in Opt(authors) : CreateBook(isbn, author)
    \/ \E b \in DOMAIN books, isbn \in 1 .. MaxIsbn, author \in Opt(authors) :
          UpdateBook(b, isbn, author)
    \/ \E b \in DOMAIN books : DeleteBook(b)

AdminInstance ==
    \/ \E id \in 1 .. MaxInstances, book \in Opt(DOMAIN books), due \in StoreDates,
          status \in Opt(StatusTyped), borrower \in Opt(DOMAIN users) :
          CreateInstance(id, book, due, status, borrower)
    \/ \E id \in DOMAIN instances, book \in Opt(DOMAIN books), due \in StoreDates,
          status \in StatusTyped, borrower \in Opt(DOMAIN users) :
          UpdateInstance(id, book, due, status, borrower)
    \/ \E id \in DOMAIN instances : DeleteInstance(id)

Next == AdminAuthor \/ AdminUser \/ AdminBook \/ AdminInstance

Spec == Init /\ [][Next]_vars

\* The books and the copies that reference them, on their own: every copy is
\* created with the default status and no due date.
BookCopies ==
    \/ \E id \in 1 .. MaxCopies, book \in Opt(DOMAIN books) :
          CreateInstance(id, book, None, None, None)
    \/ \E id \in DOMAIN instances, book \in Opt(DOMAIN books) :
          UpdateInstance(id, book, None, status_default, None)
    \/ \E id \in DOMAIN instances : DeleteInstance(id)

NextBooks == AdminBook \/ BookCopies

SpecBooks == Init /\ [][NextBooks]_vars

(* --------------------------------------------------- overdue and renewal *)
\* An overdue test that looks at the status too.
is_overdue_on_loan(self) ==
    self.status = "o" /\ Truthy(self.due_back) /\ today > Val(self.due_back)

\* An overdue test that counts the due date itself as late.
is_overdue_from_due_date(self) == Truthy(self.due_back) /\ today >= Val(self.due_back)

\* BookInstance.is_overdue: bool(self.due_back and date.today() > self.due_back).
is_overdue(self) == Truthy(self.due_back) /\ today > Val(self.due_back)

\* A validator whose upper bound excludes the last day of the window.
clean_due_back_exclusive(data, now) ==
    IF data = None
    THEN [outcome |-> "TypeError"]
    ELSE IF Val(data) < now
    THEN [outcome |-> "ValidationError", message |-> "renewal in past"]
    ELSE IF Val(data) >= now + timedelta_weeks(RenewalWeeks)
    THEN [outcome |-> "ValidationError", message |-> "renewal more than 4 weeks ahead"]
    ELSE [outcome |-> "ok", value |-> data]

\* RenewBookModelForm.clean_due_back on the cleaned field value `data`, read
\* at date `now`.  The form field is optional (blank=True), so `data` may be
\* None, and None < today raises TypeError.
clean_due_back(data, now) ==
    IF data = None
    THEN [outcome |-> "TypeError"]
    ELSE IF Val(data) < now
    THEN [outcome |-> "ValidationError", message |-> "renewal in past"]
    ELSE IF Val(data) > now + timedelta_weeks(RenewalWeeks)
    THEN [outcome |-> "ValidationError", message |-> "renewal more than 4 weeks ahead"]
    ELSE [outcome |-> "ok", value |-> data]

\* A save that also marks the copy as on loan.
form_save_on_loan(self, cleaned) == [self EXCEPT !.due_back = cleaned, !.status = "o"]

\* ModelForm.save() with Meta.fields = ['due_back']: only due_back is written.
form_save(self, cleaned) == [self EXCEPT !.due_back = cleaned]

\* A renewal request for copy `id` proposing `proposed`: validate, then save.
Renew(id, proposed) ==
    /\ id \in DOMAIN instances
    /\ LET r == clean_due_back(proposed, today) IN
        /\ response' = [op |-> "renew", id |-> id, proposed |-> proposed, result |-> r]
        /\ IF r.outcome = "ok"
           THEN /\ instances' = [instances EXCEPT ![id] = form_save(@, r.value)]
                /\ renewed_at' = [renewed_at EXCEPT ![id] = Some(today)]
           ELSE UNCHANGED <<instances, renewed_at>>
    /\ UNCHANGED <<today, nulls_first, authors, users, books>>

\* Midnight: the date advances; the response of the last request is gone.
Tick ==
    /\ today < MaxToday
    /\ today' = today + 1
    /\ response' = Idle
    /\ UNCHANGED <<nulls_first, authors, users, books, instances, renewed_at>>

\* The dates a renewal request proposes: the whole window and RenewSlack days
\* on either side of it, or nothing.
Proposals == Opt((today - RenewSlack) .. (today + timedelta_weeks(RenewalWeeks) + RenewSlack))

RenewRequest ==
    /\ today <= MaxRenewDay
    /\ \E id \in DOMAIN instances, proposed \in Proposals : Renew(id, proposed)

\* One copy, followed from its creation: created, edited and deleted by an
\* administrator, with no book and no borrower on file.
CopyAdmin ==
    \/ /\ instances = <<>>
       /\ \E due \in StoreDates, status \in Opt(StatusTyped) :
             CreateInstance(1, None, due, status, None)
    \/ \E id \in DOMAIN instances, due \in StoreDates, status \in StatusTyped :
          UpdateInstance(id, None, due, status, None)
    \/ \E id \in DOMAIN instances : DeleteInstance(id)

NextRenew == CopyAdmin \/ RenewRequest \/ Tick

SpecRenew == Init /\ [][NextRenew]_vars

(* ----------------------------------------------------------- the listings *)
\* request.user.is_authenticated
is_authenticated(caller) == caller # Anonymous

\* A permission test every caller passes.
has_perm_any(caller) == TRUE

\* request.user.has_perm('catalog.can_mark_returned'); the anonymous user
\* holds no permission.
has_perm(caller) ==
    IF caller = Anonymous THEN FALSE ELSE users[caller].can_mark_returned

\* A filter on the borrower alone.
filter_borrower_only(is, user) == {i \in DOMAIN is : is[i].borrower = Some(user)}

\* filter(borrower=self.request.user, status__exact='o')
filter_borrower_status(is, user) ==
    {i \in DOMAIN is : is[i].borrower = Some(user) /\ is[i].status = "o"}

\* filter(status__exact='o')
filter_status(is) == {i \in DOMAIN is : is[i].status = "o"}

\* x ORDER BY-precedes y (ascending): NULL on the backend's side of the dates.
precedes(x, y) ==
    IF x = None THEN (nulls_first \/ y = None)
    ELSE IF y = None THEN ~nulls_first
    ELSE Val(x) <= Val(y)

\* order_by('due_back'): every row sequence the ORDER BY may return; rows with
\* equal keys come in any order.
RECURSIVE order_by_due_back(_, _)
order_by_due_back(is, ids) ==
    IF ids = {} THEN {<<>>}
    ELSE UNION {{<<m>> \o rest : rest \in order_by_due_back(is, ids \ {m})} :
                m \in {x \in ids :
                        \A y \in ids : precedes(is[x].due_back, is[y].due_back)}}

Redirect(op, caller) ==
    [op |-> op, caller |-> caller, outcome |-> "redirect_login", queryset |-> <<>>]

\* LoanedBooksByUserListView: LoginRequiredMixin, then get_queryset.  The rows
\* are the queryset the view hands to its paginator (paginate_by = 10).
LoanedBooksByUserListView(caller) ==
    /\ IF ~is_authenticated(caller)
       THEN response' = Redirect("my_borrowed", caller)
       ELSE \E q \in order_by_due_back(instances,
                                       filter_borrower_status(instances, caller)) :
                response' = [op |-> "my_borrowed", caller |-> caller,
                             outcome |-> "ok", queryset |-> q]
    /\ UNCHANGED <<today, nulls_first, authors, users, books, instances, renewed_at>>

\* BorrowedBooksListView: login_required, then permission_required, then
\* get_queryset.
BorrowedBooksListView(caller) ==
    /\ IF ~is_authenticated(caller)
       THEN response' = Redirect("all_borrowed", caller)
       ELSE IF ~has_perm(caller)
       THEN response' = Redirect("all_borrowed", caller)
       ELSE \E q \in order_by_due_back(instances, filter_status(instances)) :
                response' = [op |-> "all_borrowed", caller |-> caller,
                             outcome |-> "ok", queryset |-> q]
    /\ UNCHANGED <<today, nulls_first, authors, users, books, instances, renewed_at>>

LoanDates == Opt(1 .. MaxLoanDate)

\* The statuses the listing runs see: on loan, and one that is not.
LoanStatuses == {"o", "a"}

Callers == {Anonymous} \cup DOMAIN users

LoanInstance ==
    \/ \E id \in 1 .. MaxLoans, due \in LoanDates, status \in LoanStatuses,
          borrower \in Opt(DOMAIN users) :
          CreateInstance(id, None, due, Some(status), borrower)
    \/ \E id \in DOMAIN instances : DeleteInstance(id)

Listing ==
    \/ \E caller \in Callers : LoanedBooksByUserListView(caller)
    \/ \E caller \in Callers : BorrowedBooksListView(caller)

NextLoans == LoanInstance \/ Listing

SpecLoans == InitLoans /\ [][NextLoans]_vars

(* ================================================================ claims *)

(* ---- renewal validation and overdue, under SpecRenew ---- *)

Failed(r, message) == r.outcome = "ValidationError" /\ r.message = message

\* C1: a renewal proposing date d on date t fails as "in the past" exactly
\* when d < t, fails as "too far ahead" exactly when d > t + 28, and otherwise
\* succeeds with d itself as the validated value.
C1_RenewalValidation ==
    (response.op = "renew" /\ response.proposed # None) =>
        LET d == response.proposed[1]
            r == response.result
        IN  /\ Failed(r, "renewal in past") <=> d < today
            /\ Failed(r, "renewal more than 4 weeks ahead") <=> d > today + 28
            /\ (d >= today /\ d <= today + 28) =>
                    (r.outcome = "ok" /\ r.value = <<d>>)
            /\ r.outcome \in {"ok", "ValidationError"}

\* The last day of the window was proposed and accepted.
C1_Witness ==
    /\ response.op = "renew"
    /\ response.proposed = <<today + 28>>
    /\ response.result.outcome = "ok"

\* C2: is_overdue is true exactly when due_back is set and today is after it,
\* and is the same whatever the status is.
C2_IsOverdue ==
    \A i \in DOMAIN instances :
        LET self == instances[i] IN
        /\ is_overdue(self) <=> (self.due_back # <<>> /\ today > self.due_back[1])
        /\ \A st \in {"m", "o", "a", "r", ""} :
                is_overdue([self EXCEPT !.status = st]) = is_overdue(self)

\* A copy that is not on loan is overdue, and so is its on-loan twin.
C2_Witness ==
    \E i \in DOMAIN instances :
        /\ instances[i].status = "a"
        /\ instances[i].due_back # <<>>
        /\ today = instances[i].due_back[1] + 1
        /\ is_overdue(instances[i])
        /\ is_overdue([instances[i] EXCEPT !.status = "o"])

\* C9, as stated: a copy whose status is not OnLoan has no due_back.
C9_DueBackOnlyOnLoan ==
    \A i \in DOMAIN instances :
        instances[i].status # "o" => instances[i].due_back = <<>>

\* C9, amended: a renewal neither reads nor writes the status: an accepted one
\* stores the proposed date in the renewed copy whatever its status is, a
\* rejected one stores nothing, and every status stays as it was.
C9_RenewalIgnoresStatus ==
    [][response'.op = "renew" =>
        /\ DOMAIN instances' = DOMAIN instances
        /\ \A i \in DOMAIN instances :
            /\ instances'[i].status = instances[i].status
            /\ instances'[i].due_back =
                  IF i = response'.id /\ response'.proposed # <<>>
                        /\ response'.proposed[1] >= today
                        /\ response'.proposed[1] <= today + 28
                  THEN response'.proposed
                  ELSE instances[i].due_back]_vars

\* A copy in maintenance was renewed and holds the new date.
C9_Witness ==
    /\ response.op = "renew"
    /\ response.result.outcome = "ok"
    /\ instances[response.id].status = "m"
    /\ instances[response.id].due_back = response.proposed

\* C10: a copy holding a date d accepted on date t is not overdue on any date
\* from t to d, is overdue on the day after d, and that day is at most t + 29.
C10_NotOverdueUntilDue ==
    \A i \in DOMAIN instances :
        renewed_at[i] # <<>> =>
            LET t == renewed_at[i][1]
                self == instances[i]
            IN  /\ self.due_back # <<>>
                /\ t <= today
                /\ today <= self.due_back[1] => ~is_overdue(self)
                /\ today = self.due_back[1] + 1 => is_overdue(self)
                /\ self.due_back[1] + 1 <= t + 29

\* The latest date was accepted and today is the day after it, 29 days on.
C10_Witness ==
    \E i \in DOMAIN instances :
        /\ renewed_at[i] # <<>>
        /\ today = renewed_at[i][1] + 29
        /\ today = instances[i].due_back[1] + 1
        /\ is_overdue(instances[i])

(* ---- the store's rules, under Spec ---- *)

NoDanglingBook ==
    \A i \in DOMAIN instances :
        instances[i].book # <<>> => instances[i].book[1] \in DOMAIN books

\* C3: deleting a book that a copy references is rejected with the restriction
\* error and changes nothing, and no copy ever references a missing book.
C3_BookDeleteRestricted ==
    /\ NoDanglingBook
    /\ [][/\ NoDanglingBook'
          /\ response'.op = "delete_book" =>
                ((\E i \in DOMAIN instances : instances[i].book = <<response'.id>>)
                    => (response'.outcome = "RestrictedError" /\ UNCHANGED store))]_vars

\* A delete was rejected; the book and the copy referencing it are there.
C3_Witness ==
    /\ response.op = "delete_book"
    /\ response.outcome = "RestrictedError"
    /\ response.id \in DOMAIN books
    /\ \E i \in DOMAIN instances : instances[i].book = <<response.id>>

\* C4: deleting an author or a user succeeds, deletes no book and no copy,
\* clears exactly the references to the deleted row and changes nothing else.
C4_SetNullOnDelete ==
    [][/\ response'.op = "delete_author" =>
            /\ response'.outcome = "ok"
            /\ authors' = authors \ {response'.id}
            /\ DOMAIN books' = DOMAIN books
            /\ \A b \in DOMAIN books :
                /\ books'[b].isbn = books[b].isbn
                /\ books'[b].author =
                      IF books[b].author = <<response'.id>> THEN <<>>
                      ELSE books[b].author
            /\ UNCHANGED <<users, instances>>
       /\ response'.op = "delete_user" =>
            /\ response'.outcome = "ok"
            /\ DOMAIN users' = DOMAIN users \ {response'.id}
            /\ \A u \in DOMAIN users' : users'[u] = users[u]
            /\ DOMAIN instances' = DOMAIN instances
            /\ \A i \in DOMAIN instances :
                /\ instances'[i].book = instances[i].book
                /\ instances'[i].status = instances[i].status
                /\ instances'[i].due_back = instances[i].due_back
                /\ instances'[i].borrower =
                      IF instances[i].borrower = <<response'.id>> THEN <<>>
                      ELSE instances[i].borrower
            /\ UNCHANGED <<authors, books>>]_vars

\* An author was deleted; one book is left without an author and the other
\* still has its own.
C4_Witness ==
    /\ response.op = "delete_author"
    /\ \E b, c \in DOMAIN books :
        /\ books[b].author = <<>>
        /\ books[c].author # <<>>
        /\ books[c].author[1] # response.id

IsbnUnique ==
    \A b, c \in DOMAIN books : b # c => books[b].isbn # books[c].isbn

\* C5: no two books ever hold the same isbn; a create or update that would
\* make two is rejected with the integrity error and changes nothing.
C5_IsbnUnique ==
    /\ IsbnUnique
    /\ [][/\ IsbnUnique'
          /\ (response'.op \in {"create_book", "update_book"}
                /\ response'.outcome = "IntegrityError") => UNCHANGED store]_vars

\* An update to another book's isbn was rejected.
C5_Witness ==
    /\ response.op = "update_book"
    /\ response.outcome = "IntegrityError"
    /\ Cardinality(DOMAIN books) = 2

\* C8, as stated: every status is one of the four choices, and a copy created
\* without a status is in maintenance.
C8_StatusOneOfFour ==
    /\ \A i \in DOMAIN instances : instances[i].status \in {"m", "o", "a", "r"}
    /\ (response.op = "create_instance" /\ response.outcome = "ok"
            /\ ~response.status_given) => instances[response.id].status = "m"

\* C8, amended: every status is one of the four choices or empty, and a copy
\* created without a status is in maintenance.
C8_StatusChoiceOrBlank ==
    /\ \A i \in DOMAIN instances : instances[i].status \in {"m", "o", "a", "r", ""}
    /\ (response.op = "create_instance" /\ response.outcome = "ok"
            /\ ~response.status_given) => instances[response.id].status = "m"

\* A copy was created without a status.
C8_Witness ==
    /\ response.op = "create_instance"
    /\ response.outcome = "ok"
    /\ ~response.status_given
    /\ instances[response.id].status = "m"

(* ---- the listings, under SpecLoans ---- *)

Elems(q) == {q[k] : k \in 1 .. Len(q)}

\* q is in ascending order of due_back, the unset ones on the backend's side.
AscendingDueBack(q) ==
    \A j, k \in 1 .. Len(q) :
        j < k =>
            LET x == instances[q[j]].due_back
                y == instances[q[k]].due_back
            IN  IF x # <<>> /\ y # <<>> THEN x[1] <= y[1]
                ELSE IF x = <<>> /\ y # <<>> THEN nulls_first
                ELSE IF x # <<>> /\ y = <<>> THEN ~nulls_first
                ELSE TRUE

\* C6: the per-user listing holds, once each, exactly the copies on loan to
\* the caller, in ascending order of due_back.
C6_LoanedToUser ==
    (response.op = "my_borrowed" /\ response.outcome = "ok") =>
        /\ Elems(response.queryset) =
              {i \in DOMAIN instances :
                  instances[i].status = "o"
                  /\ instances[i].borrower = <<response.caller>>}
        /\ Len(response.queryset) = Cardinality(Elems(response.queryset))
        /\ AscendingDueBack(response.queryset)

\* The caller got two loans, one of them without a due date.
C6_Witness ==
    /\ response.op = "my_borrowed"
    /\ response.outcome = "ok"
    /\ Len(response.queryset) = 2
    /\ instances[response.queryset[1]].due_back
            # instances[response.queryset[2]].due_back
    /\ \E k \in 1 .. 2 : instances[response.queryset[k]].due_back = <<>>

====
